---- MODULE Spec2Model ----
(***************************************************************************)
(* Session registry and live-telemetry relay of webEvalAgent               *)
(* (src/webEvalAgent/src/browser_stream.py).                               *)
(*                                                                         *)
(* The server is one asyncio event loop.  Every request handler is an      *)
(* `async def` without any `await` in its body, so a handler runs to       *)
(* completion before anything else is scheduled: each handler is one       *)
(* atomic action.  The only suspension point of the background task        *)
(* cleanup_stale_instances is its `await asyncio.sleep(30)`, so one        *)
(* iteration of its loop is one atomic action as well.  Requests that      *)
(* arrive concurrently are therefore handled in some serial order; the     *)
(* model lets any handler run with any input at any step.                  *)
(*                                                                         *)
(* Time is in seconds.  time.time() is modelled by the variable `now`.     *)
(***************************************************************************)
EXTENDS Integers, FiniteSets, Sequences, TLC

\* ------------------------------------------------------------ bounds
\* The clock runs from 0 to MaxTime and advances TickStep seconds at a time.
MaxTime == 90
TickStep == 15

\* ------------------------------------------------- program constants
ReadTimeout == 30      \* get_screenshots: `current_time - last_time > 30`
SweepTimeout == 60     \* cleanup_stale_instances: `current_time - last_time > 60`
SweepInterval == 30    \* cleanup_stale_instances: `await asyncio.sleep(30)`

\* ------------------------------------------------------------ inputs
\* Agent identifiers that requests carry: the empty string and one other.
AgentIds == {"", "A"}
\* Screenshot payloads (opaque base64 strings).
Shots == {"xyz", "abc"}
\* Values of os.name.
OsNames == {"posix", "nt", "other"}

\* A JSON value of a request body field: a string, or null/absent.
Str(s) == [t |-> "str", v |-> s]
Null == [t |-> "null", v |-> ""]
\* Request bodies of POST /update_screenshot.
Requests ==
    [agent_id : {Str(a) : a \in AgentIds}, screenshot : {Str(s) : s \in Shots}]
        \cup {[agent_id |-> Null, screenshot |-> Str("xyz")],
              [agent_id |-> Str("A"), screenshot |-> Null]}
\* Handlers without a request body.
NoInput == [agent_id |-> Null, screenshot |-> Null]

\* ------------------------------------------------------------- state
VARIABLES
    now,                 \* time.time()
    latest_screenshots,  \* dict agent_id -> screenshot
    last_update_time,    \* dict agent_id -> time of the last update
    active_instances,    \* dict agent_id -> True
    sweeper,             \* the task running cleanup_stale_instances
    last,                \* the operation that completed last, with its response
    prev,                \* the handler operation that completed before `last`
    ingested,            \* history: per agent_id, its last completed ingestion
    dashboard,           \* the page served by GET /: its tiles and its timers
    mcp_server           \* mcp_server.py: the held API key and the last tool call

registry == <<latest_screenshots, last_update_time, active_instances>>
vars == <<now, latest_screenshots, last_update_time, active_instances,
          sweeper, last, prev, ingested, dashboard, mcp_server>>

\* ------------------------------------------------------ dict helpers
EmptyDict == <<>>
\* d[k] = v
DictSet(d, k, v) == [x \in DOMAIN d \cup {k} |-> IF x = k THEN v ELSE d[x]]
\* for k in ks: if k in d: del d[k]
DictDel(d, ks) == [x \in DOMAIN d \ ks |-> d[x]]

\* ----------------------------------------------------- observability
\* send_log(message, emoji, log_type='status'): one event per call.
\* `about` is the agent_id the message names, or Null.
SendLog(kind, about) == [kind |-> kind, about |-> about]

\* --------------------------------------------------------- responses
NoIngest == [shot |-> "", at |-> -1]

\* A completed operation: its name, its input, the status and message of its
\* response, the two mappings of a snapshot response and the events it logged.
Done(op, input, status, message, events) ==
    [op |-> op, input |-> input, status |-> status, message |-> message,
     screenshots |-> EmptyDict, lastUpdate |-> EmptyDict, events |-> events]

\* What `prev` keeps of an operation: the outcome of a cleanup or of a sweep
\* iteration, that an update replaced an older record, and otherwise only that
\* some other handler ran.
Tag(l) ==
    IF l.op \in {"cleanup", "sweep"} THEN [op |-> l.op, status |-> l.status]
    ELSE IF l.op = "update" /\ l.message \in {"replaced", "recreated"}
         THEN [op |-> "update", status |-> l.message]
         ELSE [op |-> "other", status |-> ""]
\* `prev` skips clock ticks: it names the handler that ran before `last`.
Shift == IF last.op \in {"tick", "startup"} THEN prev ELSE Tag(last)

\* ------------------------------------------------- dashboard (GET /)
\* updateTimestamps: `if (seconds > 10)` marks the tile 'Stale'.
StaleAfter == 10
\* updateTimestamps: `if (seconds > 30)` removes the tile.
RemoveAfter == 30
\* setInterval(fetchAndUpdateScreenshots, 1000); setInterval(updateTimestamps, 1000)
PollInterval == 1

\* The page when its script has been loaded: no tile, `lastUpdated` empty,
\* fetchAndUpdateScreenshots is called immediately and both interval timers
\* are armed.  `status` is the text of the status element of each tile.
PageLoaded ==
    [lastUpdated |-> EmptyDict, status |-> EmptyDict,
     fetch_at |-> 0, stamp_at |-> PollInterval]

\* ------------------------------------------------- mcp_server module
\* API keys that the environment, a config file or the prompt can supply.
Keys == {"key-1", "key-2"}
\* Arguments of the tools.
Urls == {"http://localhost:3000", "http://localhost:8080",
         "http://localhost:5173"}
Tasks == {"test the checkout flow", "check form validation feedback"}

\* No tool has been called yet.
NoCall ==
    [tool |-> "none", url |-> Null, task |-> "", headless |-> FALSE,
     is_valid |-> FALSE, invoked |-> "none", text |-> [kind |-> "", by |-> ""]]

\* OPERATIVE_API_KEY_HOLDER = {"key": None} when the module has been loaded
\* and the two tools are registered.
ModuleLoaded == [key |-> Null, call |-> NoCall]

\* -------------------------------------------------------------- Init
\* startup_event has created the sweeper task; its first iteration is due.
startup_event == [alive |-> TRUE, wake_at |-> 0]

Init ==
    /\ now = 0
    /\ latest_screenshots = EmptyDict
    /\ last_update_time = EmptyDict
    /\ active_instances = EmptyDict
    /\ sweeper = startup_event
    /\ last = Done("startup", NoInput, "", "", {})
    /\ prev = Tag(Done("startup", NoInput, "", "", {}))
    /\ ingested = [a \in AgentIds |-> NoIngest]
    /\ dashboard = PageLoaded
    /\ mcp_server = ModuleLoaded

\* ------------------------------------------------------------- clock
Tick(d) ==
    /\ now + d <= MaxTime
    /\ now' = now + d
    /\ last' = Done("tick", NoInput, "", "", {})
    /\ prev' = Shift
    /\ UNCHANGED <<latest_screenshots, last_update_time, active_instances,
                   sweeper, ingested, dashboard, mcp_server>>

\* ------------------------------------------- POST /update_screenshot
\* class ScreenshotUpdate(BaseModel): agent_id: str; screenshot: str
\* The framework validates the body against the model before it calls the
\* handler: both fields must be present strings.  Any string passes.
ScreenshotUpdate(body) ==
    /\ body.agent_id.t = "str"
    /\ body.screenshot.t = "str"

\* Mutant: the timestamp of an existing record is not refreshed.
StoreUpdate_KeepsFirstTime(shots, times, active, agent_id, screenshot, t) ==
    <<DictSet(shots, agent_id, screenshot),
      DictSet(times, agent_id,
              IF agent_id \in DOMAIN times THEN times[agent_id] ELSE t),
      DictSet(active, agent_id, TRUE)>>

\* Mutant: the screenshot of an existing record is kept (setdefault).
StoreUpdate_KeepsFirstShot(shots, times, active, agent_id, screenshot, t) ==
    <<DictSet(shots, agent_id,
              IF agent_id \in DOMAIN shots THEN shots[agent_id] ELSE screenshot),
      DictSet(times, agent_id, t),
      DictSet(active, agent_id, TRUE)>>

\* Mutant: the maps are rebound to one-entry dicts instead of being updated.
StoreUpdate_DropsOthers(shots, times, active, agent_id, screenshot, t) ==
    <<DictSet(EmptyDict, agent_id, screenshot), DictSet(EmptyDict, agent_id, t),
      DictSet(EmptyDict, agent_id, TRUE)>>

\* Mutant: only an agent already in active_instances is stored; an unknown
\* or evicted agent_id is only registered by its first report.
StoreUpdate_RequiresActive(shots, times, active, agent_id, screenshot, t) ==
    IF agent_id \in DOMAIN active
    THEN <<DictSet(shots, agent_id, screenshot), DictSet(times, agent_id, t),
           DictSet(active, agent_id, TRUE)>>
    ELSE <<shots, times, DictSet(active, agent_id, TRUE)>>

\* Mutant: the assignment of last_update_time is missing.
StoreUpdate_NoTimestamp(shots, times, active, agent_id, screenshot, t) ==
    <<DictSet(shots, agent_id, screenshot), times, DictSet(active, agent_id, TRUE)>>

\* The three assignments of the handler.
StoreUpdate(shots, times, active, agent_id, screenshot, t) ==
    <<DictSet(shots, agent_id, screenshot),
      DictSet(times, agent_id, t),
      DictSet(active, agent_id, TRUE)>>

\* History only (not in the response): whether the update replaced a record
\* that held another screenshot and an older timestamp.
Replaced(shots, times, agent_id, screenshot, t) ==
    IF /\ agent_id \in DOMAIN shots \cap DOMAIN times
       /\ shots[agent_id] # screenshot
       /\ times[agent_id] < t
    THEN "replaced" ELSE ""

\* History only: the call stores a record for an agent_id that was ingested
\* before and is absent now (a read, a sweep or a cleanup has removed it).
Recreated(shots, agent_id, before) ==
    IF agent_id \notin DOMAIN shots /\ before.at >= 0
    THEN "recreated" ELSE ""

\* History only: what the call did to the record of its agent_id.
Outcome(shots, times, agent_id, screenshot, t, before) ==
    IF Replaced(shots, times, agent_id, screenshot, t) # ""
    THEN Replaced(shots, times, agent_id, screenshot, t)
    ELSE Recreated(shots, agent_id, before)

update_screenshot(body) ==
    IF ScreenshotUpdate(body)
    THEN LET agent_id == body.agent_id.v
             screenshot == body.screenshot.v
             r == StoreUpdate(latest_screenshots, last_update_time,
                              active_instances, agent_id, screenshot, now)
         IN  /\ latest_screenshots' = r[1]
             /\ last_update_time' = r[2]
             /\ active_instances' = r[3]
             /\ ingested' = [ingested EXCEPT
                               ![agent_id] = [shot |-> screenshot, at |-> now]]
             /\ last' = Done("update", body, "success",
                             Outcome(latest_screenshots, last_update_time,
                                     agent_id, screenshot, now,
                                     ingested[agent_id]),
                             {SendLog("received", Str(agent_id))})
             /\ prev' = Shift
             /\ UNCHANGED <<now, sweeper, dashboard, mcp_server>>
    ELSE \* 422 from the framework; the handler does not run
         /\ last' = Done("update", body, "validation_error", "", {})
         /\ prev' = Shift
         /\ UNCHANGED <<now, latest_screenshots, last_update_time,
                        active_instances, sweeper, ingested, dashboard, mcp_server>>

\* ---------------------------------------------- GET /get_screenshots
\* for agent_id, last_time in list(last_update_time.items()):
\*     if current_time - last_time > 30: stale_agents.append(agent_id)
\* Mutant: the read path uses the sweep path's threshold.
StaleOnRead_SweepThreshold(times, current_time) ==
    {agent_id \in DOMAIN times : current_time - times[agent_id] > SweepTimeout}

\* Mutant: the operands of the subtraction are swapped.
StaleOnRead_Swapped(times, current_time) ==
    {agent_id \in DOMAIN times : times[agent_id] - current_time > ReadTimeout}

\* Mutant: the comparison is `>=`, so a record of age exactly 30 is evicted.
StaleOnRead_AtLeast(times, current_time) ==
    {agent_id \in DOMAIN times : current_time - times[agent_id] >= ReadTimeout}

StaleOnRead(times, current_time) ==
    {agent_id \in DOMAIN times : current_time - times[agent_id] > ReadTimeout}

\* Mutant: the `del last_update_time[agent_id]` is missing.
RemoveStale_KeepsTimes(shots, times, active, stale_agents) ==
    <<DictDel(shots, stale_agents), times, DictDel(active, stale_agents)>>

\* for agent_id in stale_agents: the three guarded `del`s.
RemoveStale(shots, times, active, stale_agents) ==
    <<DictDel(shots, stale_agents),
      DictDel(times, stale_agents),
      DictDel(active, stale_agents)>>

\* send_log runs only inside `if agent_id in active_instances`.
RemovalEvents(kind, active, stale_agents) ==
    {SendLog(kind, Str(agent_id)) : agent_id \in stale_agents \cap DOMAIN active}

\* return {"screenshots": latest_screenshots, "lastUpdate": last_update_time}
\* The response is serialised from the dicts as they are when the handler returns.
SnapshotResponse(shots, times, events) ==
    [Done("get", NoInput, "ok", "", events) EXCEPT
        !.screenshots = shots, !.lastUpdate = times]

Snapshot ==
    LET stale_agents == StaleOnRead(last_update_time, now)
        r == RemoveStale(latest_screenshots, last_update_time,
                         active_instances, stale_agents)
    IN  /\ latest_screenshots' = r[1]
        /\ last_update_time' = r[2]
        /\ active_instances' = r[3]
        /\ last' = SnapshotResponse(r[1], r[2],
                      RemovalEvents("removed_stale", active_instances, stale_agents))
        /\ prev' = Shift
        /\ UNCHANGED <<now, sweeper, ingested, mcp_server>>

\* The handler called by a client other than the dashboard page.
get_screenshots == Snapshot /\ UNCHANGED dashboard

\* ----------------------------------------------------- POST /cleanup
\* subprocess.run([...], capture_output=True) is called on posix (pkill) and
\* on nt (taskkill, twice).  It raises when the executable cannot be started
\* (FileNotFoundError, PermissionError); a non-zero exit status does not raise.
TerminationRaises(os_name, run_raises) ==
    os_name \in {"posix", "nt"} /\ run_raises

\* Mutant: clearing an empty registry raises too.
TryRaises_OnEmptyRegistry(os_name, run_raises, shots) ==
    TerminationRaises(os_name, run_raises) \/ DOMAIN shots = {}

\* Whether a statement of the `try` block raises: only the subprocess calls
\* can; dict.clear() and send_log do not, also on an empty dict.
TryRaises(os_name, run_raises, shots) ==
    TerminationRaises(os_name, run_raises)

\* Mutant: `active_instances.clear()` is missing.
ClearTracking_KeepsActive(shots, times, active, raised) ==
    IF raised THEN <<shots, times, active>>
    ELSE <<EmptyDict, EmptyDict, active>>

\* Mutant: `last_update_time.clear()` is missing.
ClearTracking_KeepsTimes(shots, times, active, raised) ==
    IF raised THEN <<shots, times, active>>
    ELSE <<EmptyDict, times, EmptyDict>>

\* latest_screenshots.clear(); last_update_time.clear(); active_instances.clear()
\* These statements are inside the `try`, after the subprocess calls: they are
\* reached only when nothing raised before them.
ClearTracking(shots, times, active, raised) ==
    IF raised THEN <<shots, times, active>>
    ELSE <<EmptyDict, EmptyDict, EmptyDict>>

\* Mutant: the except branch swallows the error and reports success.
CleanupResponse_AlwaysSuccess(input, raised) ==
    Done("cleanup", input, "success", "All browser processes cleaned up",
         {SendLog("cleaned_up", Null)})

CleanupResponse(input, raised) ==
    IF raised
    THEN Done("cleanup", input, "error", "str(e)",
              {SendLog("cleanup_error", Null)})
    ELSE Done("cleanup", input, "success", "All browser processes cleaned up",
              {SendLog("cleaned_up", Null)})

cleanup_browsers(os_name, run_raises) ==
    LET raised == TryRaises(os_name, run_raises, latest_screenshots)
        r == ClearTracking(latest_screenshots, last_update_time,
                           active_instances, raised)
    IN  /\ latest_screenshots' = r[1]
        /\ last_update_time' = r[2]
        /\ active_instances' = r[3]
        /\ last' = CleanupResponse(
                      [raised |-> TerminationRaises(os_name, run_raises)], raised)
        /\ prev' = Shift
        /\ UNCHANGED <<now, sweeper, ingested, dashboard, mcp_server>>

\* ------------------------------------- cleanup_stale_instances (task)
\* Mutant: the operands of the subtraction are swapped.
StaleOnSweep_Swapped(times, current_time) ==
    {agent_id \in DOMAIN times : times[agent_id] - current_time > SweepTimeout}

\* Mutant: the threshold is taken as 60 minutes.
StaleOnSweep_Minutes(times, current_time) ==
    {agent_id \in DOMAIN times :
        current_time - times[agent_id] > SweepTimeout * 60}

\* Mutant: `>=` instead of `>`.
StaleOnSweep_AtLeast(times, current_time) ==
    {agent_id \in DOMAIN times : current_time - times[agent_id] >= SweepTimeout}

\* Mutant: the sweeper uses the threshold of the read path.
StaleOnSweep_ReadThreshold(times, current_time) ==
    {agent_id \in DOMAIN times : current_time - times[agent_id] > ReadTimeout}

\* Mutant: the sweeper evicts from the age at which the read path still serves.
StaleOnSweep_FromReadTimeout(times, current_time) ==
    {agent_id \in DOMAIN times : current_time - times[agent_id] >= ReadTimeout}

\* if current_time - last_time > 60: stale_agents.append(agent_id)
StaleOnSweep(times, current_time) ==
    {agent_id \in DOMAIN times : current_time - times[agent_id] > SweepTimeout}

\* Mutant: the `try` encloses the loop, so an exception ends the task.
AfterIteration_DiesOnError(task, faulted, current_time) ==
    [alive |-> task.alive /\ ~faulted, wake_at |-> current_time + SweepInterval]

\* Mutant: the task sleeps two intervals between iterations.
AfterIteration_SleepsTwice(task, faulted, current_time) ==
    [alive |-> task.alive, wake_at |-> current_time + SweepInterval + SweepInterval]

\* `except Exception` is inside `while True`: an exception raised in the body of
\* one iteration is caught there, and control reaches `await asyncio.sleep(30)`.
AfterIteration(task, faulted, current_time) ==
    [alive |-> task.alive, wake_at |-> current_time + SweepInterval]

\* Mutant: the membership test that guards send_log runs after the `del`
\* of active_instances, so it never succeeds.
SweepEvents_TestAfterDel(active, removed, faulted) ==
    RemovalEvents("server_removed_stale", DictDel(active, removed), removed)
        \cup (IF faulted THEN {SendLog("sweep_error", Null)} ELSE {})

SweepEvents(active, removed, faulted) ==
    RemovalEvents("server_removed_stale", active, removed)
        \cup (IF faulted THEN {SendLog("sweep_error", Null)} ELSE {})

\* One iteration of the loop, run when the sleep has elapsed.  `faulted` says
\* that an exception is raised inside the `try`; `removed` are then the stale
\* agents whose removal was completed before it (all of them without a fault).
cleanup_stale_instances(faulted, removed) ==
    LET stale_agents == StaleOnSweep(last_update_time, now)
        r == RemoveStale(latest_screenshots, last_update_time,
                         active_instances, removed)
    IN  /\ sweeper.alive
        /\ now >= sweeper.wake_at
        /\ removed \subseteq stale_agents
        /\ ~faulted => removed = stale_agents
        /\ latest_screenshots' = r[1]
        /\ last_update_time' = r[2]
        /\ active_instances' = r[3]
        /\ sweeper' = AfterIteration(sweeper, faulted, now)
        /\ last' = Done("sweep", NoInput, IF faulted THEN "error" ELSE "ok", "",
                        SweepEvents(active_instances, removed, faulted))
        /\ prev' = Shift
        /\ UNCHANGED <<now, ingested, dashboard, mcp_server>>

\* -------------------------------------------------------------- Next
Next ==
    \/ Tick(TickStep)
    \/ \E body \in Requests : update_screenshot(body)
    \/ get_screenshots
    \/ \E os_name \in OsNames, run_raises \in BOOLEAN :
          cleanup_browsers(os_name, run_raises)
    \/ \E faulted \in BOOLEAN, removed \in SUBSET AgentIds :
          cleanup_stale_instances(faulted, removed)

Spec == Init /\ [][Next]_vars

\* ------------------------------------------------- the quiet system
\* The system once the agents have stopped reporting: no update_screenshot.
\* It starts from the registries that updates at time 0 leave behind.  Every
\* sweep iteration completes.  The clock advances and the event loop resumes
\* the sweeper task once its sleep has elapsed (weak fairness of both).
InitQuiet ==
    /\ now = 0
    /\ \E shots \in UNION {[S -> Shots] : S \in SUBSET AgentIds} :
          /\ latest_screenshots = shots
          /\ last_update_time = [a \in DOMAIN shots |-> 0]
          /\ active_instances = [a \in DOMAIN shots |-> TRUE]
          /\ ingested = [a \in AgentIds |->
                           IF a \in DOMAIN shots
                           THEN [shot |-> shots[a], at |-> 0] ELSE NoIngest]
    /\ sweeper = startup_event
    /\ last = Done("startup", NoInput, "", "", {})
    /\ prev = Tag(Done("startup", NoInput, "", "", {}))
    /\ dashboard = PageLoaded
    /\ mcp_server = ModuleLoaded

SweepPass == cleanup_stale_instances(FALSE, StaleOnSweep(last_update_time, now))

NextQuiet ==
    \/ Tick(TickStep)
    \/ SweepPass
    \/ get_screenshots
    \/ \E os_name \in OsNames, run_raises \in BOOLEAN :
          cleanup_browsers(os_name, run_raises)

SpecQuiet ==
    /\ InitQuiet
    /\ [][NextQuiet]_vars
    /\ WF_vars(Tick(TickStep))
    /\ WF_vars(SweepPass)

\* ---------------------------------------------- the punctual sweeper
\* The event loop is idle between requests, so the sweeper task is resumed as
\* soon as its sleep has elapsed: the clock does not advance while an
\* iteration is due.
SweepDue == sweeper.alive /\ now >= sweeper.wake_at

TickTimely(d) == ~SweepDue /\ Tick(d)

NextTimely ==
    \/ TickTimely(TickStep)
    \/ \E body \in Requests : update_screenshot(body)
    \/ get_screenshots
    \/ \E os_name \in OsNames, run_raises \in BOOLEAN :
          cleanup_browsers(os_name, run_raises)
    \/ \E faulted \in BOOLEAN, removed \in SUBSET AgentIds :
          cleanup_stale_instances(faulted, removed)

SpecTimely == Init /\ [][NextTimely]_vars

\* ------------------------------------------------ the polled timeline
\* The timeline of the documented scenario, second by second: the agents are
\* ingested at t=0 and never again, a client calls get_screenshots at t=5 and
\* at t=31 (and possibly at other times), nobody calls cleanup, and the
\* sweeper runs punctually.
ScenarioPolls == {5, 31}

TickScenario ==
    /\ ~SweepDue
    /\ now \in ScenarioPolls => last.op = "get"
    /\ Tick(1)

NextScenario ==
    \/ TickScenario
    \/ get_screenshots
    \/ \E faulted \in BOOLEAN, removed \in SUBSET AgentIds :
          cleanup_stale_instances(faulted, removed)

SpecScenario == InitQuiet /\ [][NextScenario]_vars

\* ------------------------------------------------ the dashboard page
\* lastUpdated[agentId] = new Date(); the tile is created when missing; its
\* status element is set to 'Active'.  The argument `metadata` and the image
\* do not bear on the status and are left out.
createOrUpdateAgentElement(d, agentId, t) ==
    [d EXCEPT !.lastUpdated = DictSet(d.lastUpdated, agentId, t),
              !.status = DictSet(d.status, agentId, "Active")]

\* for (const agentId in screenshots) createOrUpdateAgentElement(agentId, ...)
\* `data.lastUpdate` is read from the response and not used.
RECURSIVE UpdateViews(_, _, _)
UpdateViews(d, agentIds, t) ==
    IF agentIds = {} THEN d
    ELSE LET agentId == CHOOSE a \in agentIds : TRUE
         IN  UpdateViews(createOrUpdateAgentElement(d, agentId, t),
                         agentIds \ {agentId}, t)

\* The timer callback: the page calls GET /get_screenshots and updates the
\* tile of every agent in the response.
fetchAndUpdateScreenshots ==
    /\ now >= dashboard.fetch_at
    /\ Snapshot
    /\ dashboard' = [UpdateViews(dashboard, DOMAIN last'.screenshots, now)
                        EXCEPT !.fetch_at = now + PollInterval]

\* const seconds = Math.floor((now - lastUpdated[agentId]) / 1000)
SecondsSince(d, agentId, t) == t - d.lastUpdated[agentId]

\* The body of the loop of updateTimestamps over the keys of lastUpdated:
\* seconds > 10 sets the status to 'Stale'; seconds > 30 removes the tile and
\* its entry of lastUpdated.
StampViews(d, t) ==
    LET kept == {a \in DOMAIN d.lastUpdated : ~(SecondsSince(d, a, t) > RemoveAfter)}
    IN  [d EXCEPT
           !.lastUpdated = [a \in kept |-> d.lastUpdated[a]],
           !.status = [a \in kept |->
                         IF SecondsSince(d, a, t) > StaleAfter
                         THEN "Stale" ELSE d.status[a]]]

\* The timer callback updateTimestamps; it calls no handler of the server.
updateTimestamps ==
    /\ now >= dashboard.stamp_at
    /\ dashboard' = [StampViews(dashboard, now)
                        EXCEPT !.stamp_at = now + PollInterval]
    /\ UNCHANGED <<now, latest_screenshots, last_update_time, active_instances,
                   sweeper, last, prev, ingested, mcp_server>>

\* Both timer callbacks of the page have run in the current second.
Settled == now < dashboard.fetch_at /\ now < dashboard.stamp_at

\* The clock advances by one poll interval once the callbacks due in the
\* current second and the sweeper iteration due in it have run.
TickDashboard ==
    /\ ~SweepDue
    /\ Settled
    /\ Tick(PollInterval)

\* The page open from time 0 on agents that reported at time 0 and have
\* stopped reporting; the user presses no button of the page.
NextDashboard ==
    \/ TickDashboard
    \/ fetchAndUpdateScreenshots
    \/ updateTimestamps
    \/ \E faulted \in BOOLEAN, removed \in SUBSET AgentIds :
          cleanup_stale_instances(faulted, removed)

SpecDashboard == InitQuiet /\ [][NextDashboard]_vars

\* ------------------------------------------------ shutdown of the task
\* Mutant: `await asyncio.sleep(30)` is inside the `try` and the handler
\* catches the cancellation, so the loop goes on to its next sleep.
AfterCancel_Caught(task, current_time) ==
    [alive |-> task.alive, wake_at |-> current_time + SweepInterval]

\* The task created by startup_event is cancelled (the event loop cancels its
\* pending tasks when the process shuts down).  The task is suspended at
\* `await asyncio.sleep(30)`, the only await of the coroutine, or has not
\* started yet: CancelledError is raised there, outside the `try` of the
\* iteration, leaves `while True` and ends the coroutine.
AfterCancel(task, current_time) ==
    [alive |-> FALSE, wake_at |-> task.wake_at]

Cancel ==
    /\ sweeper.alive
    /\ sweeper' = AfterCancel(sweeper, now)
    /\ last' = Done("cancel", NoInput, "cancelled", "", {})
    /\ prev' = Shift
    /\ UNCHANGED <<now, latest_screenshots, last_update_time, active_instances,
                   ingested, dashboard, mcp_server>>

\* The service with the punctual sweeper, and the task cancelled at any time.
NextShutdown ==
    \/ TickTimely(TickStep)
    \/ \E body \in Requests : update_screenshot(body)
    \/ get_screenshots
    \/ \E os_name \in OsNames, run_raises \in BOOLEAN :
          cleanup_browsers(os_name, run_raises)
    \/ \E faulted \in BOOLEAN, removed \in SUBSET AgentIds :
          cleanup_stale_instances(faulted, removed)
    \/ Cancel

SpecShutdown == Init /\ [][NextShutdown]_vars

\* ------------------------------------------------ the sweeper alone
\* The service when nobody polls get_screenshots and no sweep iteration
\* fails: agents report, cleanup may be called, and the punctual sweeper runs
\* its iterations to the end.
NextCadence ==
    \/ TickTimely(TickStep)
    \/ \E body \in Requests : update_screenshot(body)
    \/ \E os_name \in OsNames, run_raises \in BOOLEAN :
          cleanup_browsers(os_name, run_raises)
    \/ SweepPass

SpecCadence == Init /\ [][NextCadence]_vars

\* ------------------------------------------------ the MCP tools
\* The backend's answer for a key: `data.get("valid")`; every failure to
\* reach the backend is answered with False.
validate_api_key_server_side(api_key_to_validate, backend_ok) == backend_ok

\* A key found in the environment, in a config file or typed at the prompt is
\* stored in the holder when the backend accepts it; otherwise the holder
\* keeps None (the function prompts again or raises ValueError).
get_and_validate_api_key(api_key, backend_ok) ==
    /\ mcp_server.key = Null
    /\ mcp_server' =
          [mcp_server EXCEPT
             !.key = IF validate_api_key_server_side(api_key, backend_ok)
                     THEN Str(api_key) ELSE @]
    /\ UNCHANGED <<now, latest_screenshots, last_update_time, active_instances,
                   sweeper, last, prev, ingested, dashboard>>

\* api_utils.validate_api_key: a missing key is not valid, a held key is
\* valid when the backend says so at the time of the call.
validate_api_key(api_key, backend_ok) == api_key # Null /\ backend_ok

\* The three lines of error_message_str, the same in both tools.
ValidationFailed == [kind |-> "validation_failed", by |-> ""]

\* The `try` around the handler: its result, or the text
\* "Error executing <tool>: ..." when it raises.
HandlerResult(tool, handler, handler_raises) ==
    IF handler_raises THEN [kind |-> "error_executing", by |-> tool]
    ELSE [kind |-> "result", by |-> handler]

\* Mutant: web_eval_agent reports the failure and goes on to the handler.
WebEvalCall_FallsThrough(url, task, headless, is_valid, handler_raises) ==
    [tool |-> "web_eval_agent", url |-> Str(url), task |-> task,
     headless |-> headless, is_valid |-> is_valid,
     invoked |-> "handle_web_evaluation",
     text |-> HandlerResult("web_eval_agent", "handle_web_evaluation",
                            handler_raises)]

\* if not is_valid: return [TextContent(...)] before the handler is reached.
WebEvalCall(url, task, headless, is_valid, handler_raises) ==
    [tool |-> "web_eval_agent", url |-> Str(url), task |-> task,
     headless |-> headless, is_valid |-> is_valid,
     invoked |-> IF is_valid THEN "handle_web_evaluation" ELSE "none",
     text |-> IF is_valid
              THEN HandlerResult("web_eval_agent", "handle_web_evaluation",
                                 handler_raises)
              ELSE ValidationFailed]

web_eval_agent(url, task, headless_browser, backend_ok, handler_raises) ==
    LET api_key == mcp_server.key
        is_valid == validate_api_key(api_key, backend_ok)
    IN  /\ mcp_server' =
              [mcp_server EXCEPT
                 !.call = WebEvalCall(url, task, headless_browser, is_valid,
                                      handler_raises)]
        /\ UNCHANGED <<now, latest_screenshots, last_update_time,
                       active_instances, sweeper, last, prev, ingested,
                       dashboard>>

\* Mutant: setup_browser_state does not look at is_valid.
SetupCall_NoKeyCheck(url, is_valid, handler_raises) ==
    [tool |-> "setup_browser_state", url |-> url, task |-> "",
     headless |-> FALSE, is_valid |-> is_valid,
     invoked |-> "handle_setup_browser_state",
     text |-> HandlerResult("setup_browser_state",
                            "handle_setup_browser_state", handler_raises)]

\* if not is_valid: return [TextContent(...)] before the handler is reached.
\* url is optional (None by default).
SetupCall(url, is_valid, handler_raises) ==
    [tool |-> "setup_browser_state", url |-> url, task |-> "",
     headless |-> FALSE, is_valid |-> is_valid,
     invoked |-> IF is_valid THEN "handle_setup_browser_state" ELSE "none",
     text |-> IF is_valid
              THEN HandlerResult("setup_browser_state",
                                 "handle_setup_browser_state", handler_raises)
              ELSE ValidationFailed]

setup_browser_state(url, backend_ok, handler_raises) ==
    LET api_key == mcp_server.key
        is_valid == validate_api_key(api_key, backend_ok)
    IN  /\ mcp_server' =
              [mcp_server EXCEPT !.call = SetupCall(url, is_valid, handler_raises)]
        /\ UNCHANGED <<now, latest_screenshots, last_update_time,
                       active_instances, sweeper, last, prev, ingested,
                       dashboard>>

NextTools ==
    \/ \E api_key \in Keys, backend_ok \in BOOLEAN :
          get_and_validate_api_key(api_key, backend_ok)
    \/ \E url \in Urls, task \in Tasks, headless_browser \in BOOLEAN,
          backend_ok \in BOOLEAN, handler_raises \in BOOLEAN :
          web_eval_agent(url, task, headless_browser, backend_ok, handler_raises)
    \/ \E url \in {Str(u) : u \in Urls} \cup {Null},
          backend_ok \in BOOLEAN, handler_raises \in BOOLEAN :
          setup_browser_state(url, backend_ok, handler_raises)

SpecTools == Init /\ [][NextTools]_vars

\* ------------------------------------------------------------ claims
RegistryEmpty ==
    /\ DOMAIN latest_screenshots = {}
    /\ DOMAIN last_update_time = {}
    /\ DOMAIN active_instances = {}

\* Seconds since the last completed ingestion of an agent that was ingested.
Age(a) == now - ingested[a].at

\* C1: every get_screenshots response has the same key set in its 'screenshots'
\* mapping and in its 'lastUpdate' mapping, whatever operations ran before.
C1_SameKeySets ==
    last.op = "get" => DOMAIN last.screenshots = DOMAIN last.lastUpdate

\* A response that serves one agent and was built after evicting another.
C1_Witness ==
    /\ last.op = "get"
    /\ Cardinality(DOMAIN last.screenshots) = 1
    /\ DOMAIN last.screenshots = DOMAIN last.lastUpdate
    /\ last.events # {}

\* C2: a get_screenshots response that contains an agent shows the screenshot of
\* that agent's last completed ingestion together with the timestamp of that
\* same ingestion (last writer wins, no merge).
C2_LastWriterWins ==
    last.op = "get" =>
        \A a \in DOMAIN last.screenshots :
            /\ a \in DOMAIN last.lastUpdate
            /\ last.screenshots[a] = ingested[a].shot
            /\ last.lastUpdate[a] = ingested[a].at

\* The response that follows an update which replaced an older record.
C2_Witness ==
    /\ last.op = "get"
    /\ prev = [op |-> "update", status |-> "replaced"]
    /\ \E a \in DOMAIN last.screenshots :
          /\ last.screenshots[a] = ingested[a].shot
          /\ last.lastUpdate[a] = ingested[a].at
          /\ ingested[a].at > 0

\* C3: an agent whose last ingestion is more than 30 seconds old is in neither
\* mapping of a get_screenshots response, in this response and in every later
\* one until it is ingested again, whether or not a sweep pass has run.
C3_StaleNotServed ==
    last.op = "get" =>
        \A a \in DOMAIN last.screenshots \cup DOMAIN last.lastUpdate :
            /\ ingested[a].at >= 0
            /\ Age(a) <= ReadTimeout

\* The read path itself evicts an agent older than 30 seconds that no sweep
\* pass had removed, and the response leaves it out.
C3_Witness ==
    /\ last.op = "get"
    /\ \E a \in AgentIds :
          /\ ingested[a].at >= 0
          /\ Age(a) > ReadTimeout
          /\ Age(a) <= SweepTimeout
          /\ SendLog("removed_stale", Str(a)) \in last.events
          /\ a \notin DOMAIN last.screenshots \cup DOMAIN last.lastUpdate

\* C4: every cleanup_browsers call leaves the registry empty, also when the
\* process-termination step raises.
C4_CleanupAlwaysEmpties ==
    last.op = "cleanup" => RegistryEmpty

\* C5: after a cleanup_browsers call that does not raise, the next
\* get_screenshots returns two empty mappings, however fresh the records were.
C5_CleanupThenEmptySnapshot ==
    (last.op = "get" /\ prev = [op |-> "cleanup", status |-> "success"]) =>
        /\ DOMAIN last.screenshots = {}
        /\ DOMAIN last.lastUpdate = {}

\* An agent ingested at this very instant (age 0) is gone from the snapshot
\* that follows the cleanup.
C5_Witness ==
    /\ last.op = "get"
    /\ prev = [op |-> "cleanup", status |-> "success"]
    /\ \E a \in AgentIds : ingested[a].at = now
    /\ DOMAIN last.screenshots = {}

\* C6 as stated: the second of two cleanup_browsers calls in a row, run against
\* the registry the first one emptied, returns 'success' and leaves it empty.
C6_SecondCleanupSucceeds ==
    (last.op = "cleanup" /\ prev = [op |-> "cleanup", status |-> "success"]) =>
        /\ last.status = "success"
        /\ RegistryEmpty

\* C6 amended: the second call leaves the registry empty; it returns 'success'
\* when its process-termination step does not raise and 'error' when it raises.
C6_SecondCleanupSafe ==
    (last.op = "cleanup" /\ prev = [op |-> "cleanup", status |-> "success"]) =>
        /\ RegistryEmpty
        /\ last.status = (IF last.input.raised THEN "error" ELSE "success")

C6_Witness ==
    /\ last.op = "cleanup"
    /\ prev = [op |-> "cleanup", status |-> "success"]
    /\ last.status = "success"
    /\ RegistryEmpty

\* C7: an update_screenshot request with an empty or malformed agent_id is
\* rejected and changes nothing; every well-formed request returns 'success'.
C7_EmptyAgentIdRejected ==
    [][last'.op = "update" =>
          IF /\ last'.input.agent_id.t = "str"
             /\ last'.input.agent_id.v # ""
             /\ last'.input.screenshot.t = "str"
          THEN last'.status = "success"
          ELSE /\ last'.status # "success"
               /\ UNCHANGED registry]_vars

\* C8: with no update_screenshot, the clock advancing and the sweeper running,
\* the registry eventually is empty and stays empty.
C8_EventuallyEmpty == <>[]RegistryEmpty

\* A sweep pass evicted the last record.
C8_Witness ==
    /\ last.op = "sweep"
    /\ last.events # {}
    /\ RegistryEmpty

\* C9: a sweep pass evicts an agent only if more than 60 seconds have passed
\* since the agent's last ingestion; an agent ingested at gaps of at most 60
\* seconds is never evicted by the sweeper.
C9_SweepSparesActive ==
    [][last'.op = "sweep" =>
          \A a \in DOMAIN last_update_time \ DOMAIN last_update_time' :
              Age(a) > SweepTimeout]_vars

\* A sweep pass ran while an agent was exactly 60 seconds past its ingestion,
\* and the agent is still there.
C9_Witness ==
    /\ last.op = "sweep"
    /\ \E a \in DOMAIN last_update_time :
          /\ Age(a) = SweepTimeout
          /\ last_update_time[a] = ingested[a].at
          /\ a \in DOMAIN latest_screenshots

\* C10: an error raised inside a sweep iteration does not end the sweeper: the
\* task stays alive, the error is logged, the next iteration is due 30 seconds
\* later, and an iteration without error leaves no record older than 60 seconds.
C10_SweeperSurvivesErrors ==
    /\ sweeper.alive
    /\ last.op = "sweep" => sweeper.wake_at = now + SweepInterval
    /\ (last.op = "sweep" /\ last.status = "error") =>
          SendLog("sweep_error", Null) \in last.events
    /\ (last.op = "sweep" /\ last.status = "ok") =>
          \A a \in DOMAIN last_update_time :
              now - last_update_time[a] <= SweepTimeout

\* An iteration that follows a failed one evicts a stale record.
C10_Witness ==
    /\ last.op = "sweep"
    /\ last.status = "ok"
    /\ prev = [op |-> "sweep", status |-> "error"]
    /\ last.events # {}
    /\ sweeper.alive

\* C11 as stated: in every reachable state, every agent_id present has a
\* last_update_time no older than the sweeper's threshold of 60 seconds.
C11_NeverOlderThanSweepTimeout ==
    \A a \in DOMAIN last_update_time :
        now - last_update_time[a] <= SweepTimeout

\* C11 amended: right after a sweep pass that completed without error, every
\* agent_id present has a last_update_time no older than 60 seconds (between
\* two passes a record can be older).
C11_FreshAfterSweep ==
    (last.op = "sweep" /\ last.status = "ok") =>
        C11_NeverOlderThanSweepTimeout

\* A pass without error has evicted one agent and kept another.
C11_Witness ==
    /\ last.op = "sweep"
    /\ last.status = "ok"
    /\ last.events # {}
    /\ DOMAIN last_update_time # {}

\* C12: update_screenshot upserts: whether or not the agent_id had a record,
\* after the call its record holds exactly the new screenshot and the time of
\* the call, and it is marked active.
C12_Upsert ==
    (last.op = "update" /\ last.status = "success") =>
        LET a == last.input.agent_id.v
        IN  /\ a \in DOMAIN latest_screenshots
            /\ a \in DOMAIN last_update_time
            /\ a \in DOMAIN active_instances
            /\ latest_screenshots[a] = last.input.screenshot.v
            /\ last_update_time[a] = now

\* An update has overwritten a record that held another screenshot and an
\* older timestamp.
C12_Witness ==
    /\ last.op = "update"
    /\ last.status = "success"
    /\ last.message = "replaced"
    /\ latest_screenshots[last.input.agent_id.v] = last.input.screenshot.v
    /\ last_update_time[last.input.agent_id.v] = now

\* C13: with agents ingested at t=0 and nothing else ('A' with 'xyz' in the
\* documented instance), get_screenshots at t=5 returns exactly these agents
\* with their screenshots, get_screenshots at t=31 returns an empty mapping,
\* and at t=65 the registry holds 0 records.
C13_Timeline ==
    LET at0 == {a \in AgentIds : ingested[a].at = 0}
    IN  /\ (last.op = "get" /\ now = 5) =>
              /\ last.screenshots = [a \in at0 |-> ingested[a].shot]
              /\ last.lastUpdate = [a \in at0 |-> 0]
        /\ (last.op = "get" /\ now = 31) =>
              /\ DOMAIN last.screenshots = {}
              /\ DOMAIN last.lastUpdate = {}
        /\ now = 65 => RegistryEmpty

\* The documented instance: 'A' was ingested with 'xyz' at t=0 and the call at
\* t=5 has returned {'A': 'xyz'}.
C13_Witness ==
    /\ now = 5
    /\ last.op = "get"
    /\ ingested = [a \in AgentIds |->
                     IF a = "A" THEN [shot |-> "xyz", at |-> 0] ELSE NoIngest]
    /\ last.screenshots = [a \in {"A"} |-> "xyz"]

\* C14: cleanup_browsers returns 'success' exactly when nothing raised, and
\* then the termination step and the clearing of the registry have both run;
\* it returns 'error' with the failure reason as message exactly when a step
\* raised; the exception never reaches the caller (there is always a response).
C14_CleanupStatus ==
    last.op = "cleanup" =>
        /\ last.status \in {"success", "error"}
        /\ last.status = "success" <=> ~last.input.raised
        /\ last.status = "success" =>
              /\ RegistryEmpty
              /\ last.message = "All browser processes cleaned up"
        /\ last.status = "error" =>
              /\ last.message = "str(e)"
              /\ SendLog("cleanup_error", Null) \in last.events

\* A call whose termination step raised has answered with status 'error'.
C14_Witness ==
    /\ last.op = "cleanup"
    /\ last.input.raised
    /\ last.status = "error"
    /\ last.message = "str(e)"

\* C15: whatever the interleaving of ingest, snapshot, sweep and cleanup, the
\* registry that the next operation sees is never half-updated: no agent_id
\* has a screenshot without a timestamp or a timestamp without a screenshot,
\* and every record pairs the screenshot and the timestamp of one ingestion.
C15_NoHalfUpdate ==
    /\ DOMAIN latest_screenshots = DOMAIN last_update_time
    /\ \A a \in DOMAIN latest_screenshots :
          /\ latest_screenshots[a] = ingested[a].shot
          /\ last_update_time[a] = ingested[a].at

\* A sweep iteration that failed half-way: it has evicted one stale agent and
\* left another stale agent, with its complete record, in the registry.
C15_Witness ==
    /\ last.op = "sweep"
    /\ last.status = "error"
    /\ \E a \in AgentIds :
          SendLog("server_removed_stale", Str(a)) \in last.events
    /\ \E b \in DOMAIN latest_screenshots \cap DOMAIN last_update_time :
          /\ now - last_update_time[b] > SweepTimeout
          /\ latest_screenshots[b] = ingested[b].shot

\* The records of the registry that are not older than `limit` at time t.
Retained(times, t, limit) ==
    {a \in DOMAIN times : t - times[a] <= limit}

\* C17: a get_screenshots call returns exactly the records present at the
\* start of the call whose age does not exceed 30 seconds, each with its
\* stored screenshot and timestamp; it removes only the older records and
\* leaves every retained record as it was.
C17_GetFrame ==
    [][last'.op = "get" =>
          LET keep == Retained(last_update_time, now, ReadTimeout)
          IN  /\ last'.screenshots = [a \in keep |-> latest_screenshots[a]]
              /\ last'.lastUpdate = [a \in keep |-> last_update_time[a]]
              /\ latest_screenshots' = [a \in keep |-> latest_screenshots[a]]
              /\ last_update_time' = [a \in keep |-> last_update_time[a]]]_vars

\* A call that has evicted one agent and served another of age exactly 30.
C17_Witness ==
    /\ last.op = "get"
    /\ \E a \in AgentIds : SendLog("removed_stale", Str(a)) \in last.events
    /\ \E b \in DOMAIN last.lastUpdate :
          /\ now - last.lastUpdate[b] = ReadTimeout
          /\ last.screenshots[b] = ingested[b].shot

\* C18: after a sweep pass that completes without error, no record older than
\* 60 seconds at the pass's time remains, and every record of age at most 60
\* seconds is still present and unchanged.
C18_SweepPass ==
    [][(last'.op = "sweep" /\ last'.status = "ok") =>
          LET keep == Retained(last_update_time, now, SweepTimeout)
          IN  /\ latest_screenshots' = [a \in keep |-> latest_screenshots[a]]
              /\ last_update_time' = [a \in keep |-> last_update_time[a]]]_vars

\* A pass that has evicted one agent and kept another of age exactly 60.
C18_Witness ==
    /\ last.op = "sweep"
    /\ last.status = "ok"
    /\ \E a \in AgentIds :
          /\ SendLog("server_removed_stale", Str(a)) \in last.events
          /\ a \notin DOMAIN latest_screenshots
    /\ \E b \in DOMAIN last_update_time :
          /\ now - last_update_time[b] = SweepTimeout
          /\ latest_screenshots[b] = ingested[b].shot

\* C19: every record that a sweep pass evicts at time t would also have been
\* evicted by a get_screenshots call at t: the sweeper never removes a record
\* that a snapshot at that instant would still serve.
C19_SweepWithinRead ==
    [][last'.op = "sweep" =>
          (DOMAIN last_update_time \ DOMAIN last_update_time')
              \subseteq StaleOnRead(last_update_time, now)]_vars

\* A pass that has evicted an agent whose record was beyond the read threshold.
C19_Witness ==
    /\ last.op = "sweep"
    /\ \E a \in AgentIds \ DOMAIN last_update_time :
          /\ SendLog("server_removed_stale", Str(a)) \in last.events
          /\ now - ingested[a].at > ReadTimeout

\* The agent of the most recent update_screenshot, when it can be told from
\* the ingestion times: the one ingested strictly after every other agent.
LatestIngested ==
    {a \in AgentIds : /\ ingested[a].at >= 0
                      /\ \A b \in AgentIds \ {a} : ingested[b].at < ingested[a].at}

\* C20: there is no tombstone: when the handler before a get_screenshots was
\* an update_screenshot that recreated a removed agent_id, and the call comes
\* within 30 seconds of it, the call returns the record of that ingestion, as
\* for an agent_id never seen before.
C20_NoTombstone ==
    (last.op = "get" /\ prev = [op |-> "update", status |-> "recreated"]) =>
        \A a \in LatestIngested :
            now - ingested[a].at <= ReadTimeout =>
                /\ a \in DOMAIN last.screenshots \cap DOMAIN last.lastUpdate
                /\ last.screenshots[a] = ingested[a].shot
                /\ last.lastUpdate[a] = ingested[a].at

\* A call that serves a recreated agent 30 seconds after its recreation.
C20_Witness ==
    /\ last.op = "get"
    /\ prev = [op |-> "update", status |-> "recreated"]
    /\ \E a \in LatestIngested :
          /\ now - ingested[a].at = ReadTimeout
          /\ last.screenshots[a] = ingested[a].shot

\* C16: on the page that polls every second, once both timer callbacks of a
\* second have run, the tile of an agent whose last ingestion is more than 10
\* seconds old and whose record the server still serves is marked 'Stale',
\* and an agent whose last ingestion is more than 30 seconds old has no tile.
C16_StaleThenRemoved ==
    Settled =>
        \A a \in AgentIds :
            ingested[a].at >= 0 =>
                /\ (Age(a) > StaleAfter /\ a \in DOMAIN latest_screenshots) =>
                      /\ a \in DOMAIN dashboard.status
                      /\ dashboard.status[a] = "Stale"
                /\ Age(a) > RemoveAfter => a \notin DOMAIN dashboard.lastUpdated

\* The agents that have an entry in one of the three maps of the registry.
Present(shots, times, active) ==
    DOMAIN shots \cup DOMAIN times \cup DOMAIN active

\* C21: in every sweep pass the events 'server removed stale agent' are, one
\* for one, the agents that the pass evicts: every evicted agent_id is named
\* by one event of the pass and no event names an agent that was not evicted.
C21_OneEventPerEviction ==
    [][last'.op = "sweep" =>
          LET evicted == Present(latest_screenshots, last_update_time,
                                 active_instances)
                           \ Present(latest_screenshots', last_update_time',
                                     active_instances')
              named == {e \in last'.events : e.kind = "server_removed_stale"}
          IN  /\ named = {SendLog("server_removed_stale", Str(a)) : a \in evicted}
              /\ Cardinality(named) = Cardinality(evicted)]_vars

\* A pass that has evicted both agents and emitted the two events.
C21_Witness ==
    /\ last.op = "sweep"
    /\ RegistryEmpty
    /\ {e \in last.events : e.kind = "server_removed_stale"}
          = {SendLog("server_removed_stale", Str(a)) : a \in AgentIds}

\* C23: between operations the three maps latest_screenshots, last_update_time
\* and active_instances have the same key set, also after a cleanup or a sweep
\* pass that ended in its error handler.
C23_ThreeMapsSameKeys ==
    /\ DOMAIN latest_screenshots = DOMAIN active_instances
    /\ DOMAIN last_update_time = DOMAIN active_instances

\* A cleanup that ended in its error handler and left records in the maps.
C23_Witness ==
    /\ last.op = "cleanup"
    /\ last.status = "error"
    /\ DOMAIN active_instances # {}
    /\ DOMAIN latest_screenshots = DOMAIN active_instances
    /\ DOMAIN last_update_time = DOMAIN active_instances

\* C24: a successful update_screenshot for agent a leaves, for every other
\* agent_id b, the presence of b, its screenshot and its timestamp as they
\* were before the call.
C24_UpdateFrame ==
    [][(last'.op = "update" /\ last'.status = "success") =>
          \A b \in AgentIds \ {last'.input.agent_id.v} :
              /\ b \in DOMAIN latest_screenshots' <=> b \in DOMAIN latest_screenshots
              /\ b \in DOMAIN last_update_time' <=> b \in DOMAIN last_update_time
              /\ b \in DOMAIN active_instances' <=> b \in DOMAIN active_instances
              /\ b \in DOMAIN latest_screenshots =>
                    latest_screenshots'[b] = latest_screenshots[b]
              /\ b \in DOMAIN last_update_time =>
                    last_update_time'[b] = last_update_time[b]]_vars

\* An update for one agent while another agent holds an older record with the
\* other screenshot, which is still as its own ingestion left it.
C24_Witness ==
    /\ last.op = "update"
    /\ last.status = "success"
    /\ \E b \in DOMAIN latest_screenshots \ {last.input.agent_id.v} :
          /\ latest_screenshots[b] # last.input.screenshot.v
          /\ last_update_time[b] < now
          /\ latest_screenshots[b] = ingested[b].shot
          /\ last_update_time[b] = ingested[b].at

\* C22: cancelling the sweeper task ends the loop: the cancellation step runs
\* no error handler (no event, the registry untouched) and leaves the task
\* dead, and once the task is dead it stays dead and no sweep pass runs.
C22_CancelEndsSweeper ==
    [][/\ last'.op = "cancel" =>
             /\ ~sweeper'.alive
             /\ last'.events = {}
             /\ UNCHANGED registry
       /\ ~sweeper.alive =>
             /\ ~sweeper'.alive
             /\ last'.op # "sweep"]_vars

\* The task was cancelled in its sleep; a full interval after the time at
\* which it would have woken, a record older than the sweep threshold is
\* still in the registry.
C22_Witness ==
    /\ ~sweeper.alive
    /\ now >= sweeper.wake_at + SweepInterval
    /\ \E a \in DOMAIN last_update_time :
          now - last_update_time[a] > SweepTimeout

\* C25: with the sweeper on its 30-second cadence, no failing iteration and no
\* get_screenshots call, a record that is not re-ingested is gone no later
\* than 90 seconds after its ingestion: no record is older than 90 seconds,
\* and once the iteration due at an instant has run no record is 90 seconds
\* old either.
C25_GoneWithinNinety ==
    \A a \in DOMAIN last_update_time :
        /\ now - last_update_time[a] <= SweepTimeout + SweepInterval
        /\ ~SweepDue => now - last_update_time[a] < SweepTimeout + SweepInterval

\* The extreme case: a record ingested right after an iteration survives the
\* iterations 30 and 60 seconds later and is evicted by the one 90 seconds
\* later.
C25_Witness ==
    /\ last.op = "sweep"
    /\ \E a \in AgentIds \ DOMAIN last_update_time :
          /\ SendLog("server_removed_stale", Str(a)) \in last.events
          /\ now - ingested[a].at = SweepTimeout + SweepInterval

\* C26: a call of web_eval_agent or setup_browser_state for which
\* validate_api_key reported the held key as not valid, missing or invalid,
\* has invoked no handler and has returned the validation-failure text, the
\* same for both tools.
C26_NoHandlerWithoutValidKey ==
    (mcp_server.call.tool # "none" /\ ~mcp_server.call.is_valid) =>
        /\ mcp_server.call.invoked = "none"
        /\ mcp_server.call.text = ValidationFailed

\* setup_browser_state called while no key is held.
C26_Witness ==
    /\ mcp_server.key = Null
    /\ mcp_server.call.tool = "setup_browser_state"
    /\ ~mcp_server.call.is_valid
    /\ mcp_server.call.invoked = "none"
    /\ mcp_server.call.text = ValidationFailed
====
